---- MODULE Spec2Model ----
(***************************************************************************)
(* Model of the data-cleaning workbench: the pattern engine of             *)
(* src/src/engines/cleaner.py, the session store of src/utils/session.py   *)
(* and the button handlers of src/src/ui/tab_cleaner.py, tab_upload.py and *)
(* sidebar_manager.py.                                                     *)
(*                                                                         *)
(* A Python str is a sequence of one-character strings.  A cell of a table *)
(* is a record [k, s, n, d]: k = "null" (a missing value, s the text str() *)
(* gives it), k = "text" with the characters s, k = "int" or "float" with  *)
(* the number n / d, or k = "date".                                        *)
(*                                                                         *)
(* pandas is modelled as pandas 2.x behaves on the Arrow-backed columns    *)
(* the loader returns (convert_dtypes(dtype_backend="pyarrow")): astype(   *)
(* str) gives every cell, a missing one included, as its text; groupby     *)
(* sorts its keys; sort_values is not stable; to_numeric and to_datetime   *)
(* with errors='coerce' give a missing value where a cell does not parse.  *)
(* Dates are recognised in the form NNNN-NN-NN.                            *)
(***************************************************************************)
EXTENDS Integers, Sequences, FiniteSets, TLC

VARIABLES
    session_state,  \* st.session_state: the keys set so far and their values
    edits,          \* edits applied since the last load or reset
    last            \* the last handler run: its call, its input and its outcome

vars == <<session_state, edits, last>>

(***************************************************************************)
(* Bounds.                                                                 *)
(***************************************************************************)
MaxRows == 3        \* rows of the table one engine call is made on
MaxUploadRows == 2  \* rows of an uploaded file, in the runs of whole sessions
MaxLocalRows == 1   \* rows of a file of the local Parquet store
MaxEdits == 1       \* edits between two loads
MaxTextLen == 4     \* characters of a text _generate_skeleton is applied to

(***************************************************************************)
(* Characters.                                                             *)
(***************************************************************************)
DIGITS == {"0", "1", "2", "3", "4", "5", "6", "7", "8", "9"}
LOWER == {"a", "b", "c", "d", "e", "f", "g", "h", "i", "j", "k", "l", "m",
          "n", "o", "p", "q", "r", "s", "t", "u", "v", "w", "x", "y", "z"}
UPPER == {"A", "B", "C", "D", "E", "F", "G", "H", "I", "J", "K", "L", "M",
          "N", "O", "P", "Q", "R", "S", "T", "U", "V", "W", "X", "Y", "Z"}
LETTERS == LOWER \cup UPPER
ALNUM == DIGITS \cup LETTERS

\* U+0663 ARABIC-INDIC DIGIT THREE, one character: a decimal digit that is
\* not an ASCII one
ARABIC_THREE == "u0663"

\* the characters \d matches in a str pattern: every Unicode decimal digit
RE_DIGIT == DIGITS \cup {ARABIC_THREE}

\* the characters of the model in code-point order (Python compares str by
\* code point)
ASCII == <<" ", "-", ".", "/",
           "0", "1", "2", "3", "4", "5", "6", "7", "8", "9",
           "<", ">",
           "A", "B", "C", "D", "E", "F", "G", "H", "I", "J", "K", "L", "M",
           "N", "O", "P", "Q", "R", "S", "T", "U", "V", "W", "X", "Y", "Z",
           "[", "\\", "]", "_",
           "a", "b", "c", "d", "e", "f", "g", "h", "i", "j", "k", "l", "m",
           "n", "o", "p", "q", "r", "s", "t", "u", "v", "w", "x", "y", "z",
           ARABIC_THREE>>

Ord(c) == CHOOSE i \in 1..Len(ASCII) : ASCII[i] = c

\* Python's str < str
StrLess(a, b) ==
    \E i \in 1..(Len(a) + 1) :
        /\ i <= Len(b)
        /\ \A j \in 1..(i - 1) : a[j] = b[j]
        /\ (i = Len(a) + 1 \/ Ord(a[i]) < Ord(b[i]))

(***************************************************************************)
(* Cell values.                                                            *)
(***************************************************************************)
\* str(pd.NA): the loader hands out Arrow-backed columns, whose missing value
\* is pd.NA
NA_TEXT == <<"<", "N", "A", ">">>

\* the missing values, each with the text str() gives it: pd.NA of a loaded
\* column, NaN of a float column, NaT of a datetime column, None of an object
\* column
NULL == [k |-> "null", s |-> NA_TEXT, n |-> 0, d |-> 1]
NAN == [k |-> "null", s |-> <<"n", "a", "n">>, n |-> 0, d |-> 1]
NAT == [k |-> "null", s |-> <<"N", "a", "T">>, n |-> 0, d |-> 1]
NONE_OBJ == [k |-> "null", s |-> <<"N", "o", "n", "e">>, n |-> 0, d |-> 1]
Txt(s) == [k |-> "text", s |-> s, n |-> 0, d |-> 1]
\* the number n / d (d >= 1, in lowest terms); an int has d = 1
IntCell(n) == [k |-> "int", s |-> <<>>, n |-> n, d |-> 1]
Flt(n, d) == [k |-> "float", s |-> <<>>, n |-> n, d |-> d]
\* the int64 a NaT is viewed as, kept as its text
INT64_MIN ==
    [k |-> "int",
     s |-> <<"-", "9", "2", "2", "3", "3", "7", "2", "0", "3", "6", "8", "5",
             "4", "7", "7", "5", "8", "0", "8">>,
     n |-> 0, d |-> 1]
\* a timestamp parsed from a text, kept as that text
Date(s) == [k |-> "date", s |-> s, n |-> 0, d |-> 1]
\* the timestamp n nanoseconds after 1970-01-01
Epoch(n) == [k |-> "date", s |-> <<>>, n |-> n, d |-> 1]

pd_isna(v) == v.k = "null"

Digit(n) == ASCII[5 + n]

RECURSIVE NatDigits(_)
NatDigits(n) ==
    IF n < 10 THEN <<Digit(n)>>
    ELSE Append(NatDigits(n \div 10), Digit(n % 10))

IntText(n) == IF n < 0 THEN <<"-">> \o NatDigits(0 - n) ELSE NatDigits(n)

\* repr of a float with at most two decimals (the only ones the model meets)
FloatText(n, d) ==
    LET a == IF n < 0 THEN 0 - n ELSE n
        scaled == a * (100 \div d)
        ip == scaled \div 100
        fp == scaled % 100
        sign == IF n < 0 THEN <<"-">> ELSE <<>>
    IN  CASE 100 % d = 0 ->
            sign \o NatDigits(ip) \o <<".">>
                \o (IF fp % 10 = 0 THEN <<Digit(fp \div 10)>>
                    ELSE <<Digit(fp \div 10), Digit(fp % 10)>>)

\* a timestamp of the first second of 1970: the date alone when a whole
\* column is at midnight, else with its nine digits of nanoseconds
EpochText(n, date_only) ==
    LET digits == NatDigits(n)
        zeros == [i \in 1..(9 - Len(digits)) |-> "0"]
        day == <<"1", "9", "7", "0", "-", "0", "1", "-", "0", "1">>
    IN  CASE date_only -> day
          [] ~date_only /\ Len(digits) <= 9 ->
                day \o <<" ", "0", "0", ":", "0", "0", ":", "0", "0", ".">>
                    \o zeros \o digits

\* Python's str(value)
str(v) ==
    CASE v.k = "null" -> v.s
      [] v.k = "text" -> v.s
      [] v.k = "int" -> IF v.s # <<>> THEN v.s ELSE IntText(v.n)
      [] v.k = "float" -> IF v.s # <<>> THEN v.s ELSE FloatText(v.n, v.d)
      [] v.k = "date" -> IF v.s # <<>> THEN v.s ELSE EpochText(v.n, v.n = 0)

(***************************************************************************)
(* Tables: the rows in order, each a record over the columns, and the      *)
(* dtype of every column.                                                  *)
(***************************************************************************)
COLUMNS == {"C", "D"}

NONE == [none |-> TRUE]

Table(dt, rows) == [dt |-> dt, rows |-> rows]

len(df) == Len(df.rows)

\* df[column]
Column(df, column) == [i \in 1..len(df) |-> df.rows[i][column]]

\* df[column].astype(str): every cell, missing ones included, as its text
astype_str(series) ==
    LET date_only == \A i \in 1..Len(series) :
                        series[i].k = "date" => series[i].n = 0
    IN  [i \in 1..Len(series) |->
            IF series[i].k = "date" /\ series[i].s = <<>>
            THEN EpochText(series[i].n, date_only)
            ELSE str(series[i])]

\* the missing value a column of a dtype holds where None is written
null_of(dtype) ==
    CASE dtype = "string" -> NULL
      [] dtype \in {"int", "float"} -> NAN
      [] dtype = "datetime" -> NAT
      [] dtype = "object" -> NONE_OBJ

\* the value a column of a dtype holds where v is written
cell_in(dtype, v) == IF pd_isna(v) THEN null_of(dtype) ELSE v

\* a float of an int, as a column that turns float holds it
as_float(v) == IF v.k = "int" THEN [v EXCEPT !.k = "float"] ELSE v

\* the dtype of a column after values are written to some of its cells: text
\* written to a column that is not of strings makes it object, a missing
\* value written to an int column makes it float
dtype_after(dtype, written) ==
    IF \E v \in written : v.k = "text" /\ dtype \notin {"string", "object"}
    THEN "object"
    ELSE IF \E v \in written : pd_isna(v) /\ dtype = "int" THEN "float"
    ELSE dtype

\* df.loc[mask, column] = values (values[i] is read where mask[i] holds)
loc_assign(df, mask, column, values) ==
    LET written == {values[i] : i \in {j \in 1..len(df) : mask[j]}}
        dtype == dtype_after(df.dt[column], written)
        kept(v) == IF dtype = "float" THEN as_float(v) ELSE v
    IN  [dt |-> [df.dt EXCEPT ![column] = dtype],
         rows |-> [i \in 1..len(df) |->
            [df.rows[i] EXCEPT ![column] =
                IF mask[i] THEN cell_in(dtype, values[i]) ELSE kept(@)]]]

(***************************************************************************)
(* _generate_skeleton                                                      *)
(***************************************************************************)
NULO == <<"N", "U", "L", "O">>

\* re.sub of a one-character class by a marker
re_sub_class(class, marker, text) ==
    [i \in 1..Len(text) |-> IF text[i] \in class THEN marker ELSE text[i]]

\* mutant: the letters are left as they are
generate_skeleton_digits(v) ==
    IF pd_isna(v) THEN NULO
    ELSE re_sub_class(RE_DIGIT, "N", str(v))

\* the digits become "N", then every letter, the fresh "N" included, becomes "A"
generate_skeleton(v) ==
    IF pd_isna(v) THEN NULO
    ELSE re_sub_class(LETTERS, "A", re_sub_class(RE_DIGIT, "N", str(v)))

\* df[column].astype(str).map(_generate_skeleton): the skeleton of the text
\* of every cell
skeleton_series(df, column) ==
    LET series == astype_str(Column(df, column))
    IN  [i \in 1..Len(series) |-> generate_skeleton(Txt(series[i]))]

(***************************************************************************)
(* analyze_text_patterns                                                   *)
(***************************************************************************)
\* round(Cantidad / len(df) * 100, 1), in tenths of a percent, half to even
pct_tenths(cantidad, total) ==
    LET t == (1000 * cantidad) \div total
        r == (1000 * cantidad) % total
    IN  IF 2 * r > total THEN t + 1
        ELSE IF 2 * r = total /\ t % 2 = 1 THEN t + 1 ELSE t

\* mutant: Cantidad counts the distinct values of the group
group_stat_nunique(series, patron, p, total) ==
    LET members == {i \in 1..Len(series) : patron[i] = p}
        first == CHOOSE i \in members : \A j \in members : i <= j
        distintos == Cardinality({series[i] : i \in members})
    IN  [Patron |-> p,
         Cantidad |-> distintos,
         Pct |-> pct_tenths(distintos, total),
         ValorUnico |-> (distintos = 1),
         Ejemplo |-> series[first]]

\* one row of groupby('patron')['val'].agg(count, first, nunique)
group_stat(series, patron, p, total) ==
    LET members == {i \in 1..Len(series) : patron[i] = p}
        first == CHOOSE i \in members : \A j \in members : i <= j
        cantidad == Cardinality(members)
        distintos == Cardinality({series[i] : i \in members})
    IN  [Patron |-> p,
         Cantidad |-> cantidad,
         Pct |-> pct_tenths(cantidad, total),
         ValorUnico |-> (distintos = 1),
         Ejemplo |-> series[first]]

\* mutant: ascending=False left out
sort_values_asc(stats) ==
    LET n == Cardinality(stats)
    IN  {s \in [1..n -> stats] :
            /\ \A i, j \in 1..n : i # j => s[i] # s[j]
            /\ \A i \in 1..n : \A j \in 1..n :
                   i < j => s[i].Cantidad <= s[j].Cantidad}

\* stats.sort_values('Cantidad', ascending=False): the default sort is not
\* stable, so the rows come out in any order with the counts non-increasing
sort_values_desc(stats) ==
    LET n == Cardinality(stats)
    IN  {s \in [1..n -> stats] :
            /\ \A i, j \in 1..n : i # j => s[i] # s[j]
            /\ \A i \in 1..n : \A j \in 1..n :
                   i < j => s[i].Cantidad >= s[j].Cantidad}

\* the tables analyze_text_patterns can return
analyze_text_patterns(df, column) ==
    LET series == astype_str(Column(df, column))
        patron == [i \in 1..Len(series) |-> generate_skeleton(Txt(series[i]))]
        keys == {patron[i] : i \in 1..Len(series)}
        stats == {group_stat(series, patron, p, len(df)) : p \in keys}
    IN  sort_values_desc(stats)

(***************************************************************************)
(* get_unique_values_by_pattern                                            *)
(***************************************************************************)
\* Series.unique(): the distinct values in order of first appearance
RECURSIVE unique(_)
unique(values) ==
    IF values = <<>> THEN <<>>
    ELSE LET front == unique(SubSeq(values, 1, Len(values) - 1))
             v == values[Len(values)]
         IN  IF \E i \in 1..Len(front) : front[i] = v THEN front
             ELSE Append(front, v)

\* the cells of a series at the positions where the mask holds, in order
RECURSIVE select(_, _)
select(series, mask) ==
    IF series = <<>> THEN <<>>
    ELSE LET n == Len(series)
             front == select(SubSeq(series, 1, n - 1), SubSeq(mask, 1, n - 1))
         IN  IF mask[n] THEN Append(front, series[n]) ELSE front

get_unique_values_by_pattern(df, column, pattern) ==
    LET sk == skeleton_series(df, column)
        mask == [i \in 1..len(df) |-> sk[i] = pattern]
    IN  unique(select(Column(df, column), mask))

(***************************************************************************)
(* replace_values_by_pattern                                               *)
(***************************************************************************)
NULL_marker_internal ==
    <<"N", "U", "L", "L", "_", "m", "a", "r", "k", "e", "r", "_",
      "i", "n", "t", "e", "r", "n", "a", "l">>

\* an engine call gives: raised ("" when it returned), ret (the table
\* returned, NONE when it raised) and df (the caller's table after the call)
\* mutant: df_clean = df, so the caller's table is the one written to
df_after_alias(df, df_clean) == df_clean

\* df_clean = df.copy(): what is written to df_clean does not reach df
df_after_copy(df, df_clean) == df

Returned(df, df_clean) ==
    [raised |-> "", ret |-> df_clean, df |-> df_after_copy(df, df_clean)]
Raised(df, df_clean, what) ==
    [raised |-> what, ret |-> NONE, df |-> df_after_copy(df, df_clean)]

\* mutant: only the first row of the group is written
replace_first_of_group(df, column, target_pattern, new_value) ==
    LET sk == skeleton_series(df, column)
        mask == [i \in 1..len(df) |->
                    /\ sk[i] = target_pattern
                    /\ \A j \in 1..(i - 1) : sk[j] # target_pattern]
        value == IF new_value = NULL_marker_internal THEN NULL
                 ELSE Txt(new_value)
    IN  Returned(df, loc_assign(df, mask, column,
                                [i \in 1..len(df) |-> value]))

replace_values_by_pattern(df, column, target_pattern, new_value) ==
    LET df_clean == df
        sk == skeleton_series(df_clean, column)
        mask == [i \in 1..len(df_clean) |-> sk[i] = target_pattern]
        value == IF new_value = NULL_marker_internal THEN NULL
                 ELSE Txt(new_value)
    IN  Returned(df, loc_assign(df_clean, mask, column,
                                [i \in 1..len(df_clean) |-> value]))


(***************************************************************************)
(* Python str and re helpers used by standardize_by_example                *)
(***************************************************************************)
\* mutant: the whole example counts as one token (pattern .+)
findall_any(text) ==
    IF text = <<>> THEN <<>> ELSE <<text>>

\* re.findall(r'[a-zA-Z0-9]+', text): the maximal alphanumeric runs in order
RECURSIVE findall_alnum(_)
findall_alnum(text) ==
    IF text = <<>> THEN <<>>
    ELSE IF text[1] \notin ALNUM THEN findall_alnum(Tail(text))
    ELSE LET stop == CHOOSE e \in 1..Len(text) :
                        /\ \A j \in 1..e : text[j] \in ALNUM
                        /\ (e = Len(text) \/ text[e + 1] \notin ALNUM)
         IN  <<SubSeq(text, 1, stop)>>
                \o findall_alnum(SubSeq(text, stop + 1, Len(text)))

\* the characters re.escape puts a backslash before
RE_SPECIAL == {"(", ")", "[", "]", "{", "}", "?", "*", "+", "-", "|", "^",
               "$", "\\", ".", "&", "~", "#", " "}

RECURSIVE re_escape(_)
re_escape(text) ==
    IF text = <<>> THEN <<>>
    ELSE (IF text[1] \in RE_SPECIAL THEN <<"\\", text[1]>> ELSE <<text[1]>>)
            \o re_escape(Tail(text))

\* text.replace(old, new, 1): the first occurrence of old, if any
str_replace_first(text, old, new) ==
    LET hits == {i \in 1..(Len(text) - Len(old) + 1) :
                    SubSeq(text, i, i + Len(old) - 1) = old}
    IN  IF hits = {} THEN text
        ELSE LET i == CHOOSE h \in hits : \A g \in hits : h <= g
             IN  SubSeq(text, 1, i - 1) \o new
                    \o SubSeq(text, i + Len(old), Len(text))

\* r'([a-zA-Z0-9]+)'
CAPTURE_ALNUM == <<"(", "[", "a", "-", "z", "A", "-", "Z", "0", "-", "9",
                   "]", "+", ")">>

\* f"\\g<{i}>"
group_ref(i) == <<"\\", "g", "<">> \o NatDigits(i) \o <<">">>

\* mutant: a token met before in the list is skipped, its later occurrence
\* stays literal text
RECURSIVE build_regex_first_only(_, _, _)
build_regex_first_only(regex_pattern, tokens, k) ==
    IF k > Len(tokens) THEN regex_pattern
    ELSE IF \E j \in 1..(k - 1) : tokens[j] = tokens[k]
    THEN build_regex_first_only(regex_pattern, tokens, k + 1)
    ELSE build_regex_first_only(
            str_replace_first(regex_pattern, re_escape(tokens[k]), CAPTURE_ALNUM),
            tokens, k + 1)

\* the loop of lines 108-109 over tokens[k..]
RECURSIVE build_regex_pattern(_, _, _)
build_regex_pattern(regex_pattern, tokens, k) ==
    IF k > Len(tokens) THEN regex_pattern
    ELSE build_regex_pattern(
            str_replace_first(regex_pattern, re_escape(tokens[k]), CAPTURE_ALNUM),
            tokens, k + 1)

\* the loop of lines 112-114 over tokens[k..]
RECURSIVE build_replacement_str(_, _, _)
build_replacement_str(replacement_str, tokens, k) ==
    IF k > Len(tokens) THEN replacement_str
    ELSE build_replacement_str(
            str_replace_first(replacement_str, tokens[k], group_ref(k)),
            tokens, k + 1)

ReError == [ok |-> FALSE, items |-> <<>>]

\* re.compile of a pattern made of capture groups ([a-zA-Z0-9]+), escaped
\* characters and plain characters; a "(" that does not open that very group
\* (the group text was overwritten by a later replace) is a pattern the re
\* module rejects
RECURSIVE re_compile(_)
re_compile(pattern) ==
    IF pattern = <<>> THEN [ok |-> TRUE, items |-> <<>>]
    ELSE IF pattern[1] = "("
    THEN IF Len(pattern) >= Len(CAPTURE_ALNUM)
            /\ SubSeq(pattern, 1, Len(CAPTURE_ALNUM)) = CAPTURE_ALNUM
         THEN LET rest == re_compile(SubSeq(pattern, Len(CAPTURE_ALNUM) + 1,
                                            Len(pattern)))
              IN  IF rest.ok
                  THEN [ok |-> TRUE,
                        items |-> <<[t |-> "grp", c |-> ""]>> \o rest.items]
                  ELSE ReError
         ELSE ReError
    ELSE IF pattern[1] = "\\"
    THEN IF Len(pattern) >= 2 /\ pattern[2] \notin ALNUM
         THEN LET rest == re_compile(SubSeq(pattern, 3, Len(pattern)))
              IN  IF rest.ok
                  THEN [ok |-> TRUE,
                        items |-> <<[t |-> "lit", c |-> pattern[2]]>>
                                     \o rest.items]
                  ELSE ReError
         ELSE ReError
    ELSE IF pattern[1] \in (RE_SPECIAL \ {"-", "&", "~", "#", " "})
    THEN ReError
    ELSE LET rest == re_compile(Tail(pattern))
         IN  IF rest.ok
             THEN [ok |-> TRUE,
                   items |-> <<[t |-> "lit", c |-> pattern[1]]>> \o rest.items]
             ELSE ReError

\* the number of capture groups of a compiled pattern
n_groups(items) == Cardinality({i \in 1..Len(items) : items[i].t = "grp"})

\* the template parser of re.sub: \g<digits> is a group reference, \\ is a
\* backslash, any other use of the backslash here is an error, and so is a
\* group number above the pattern's
RECURSIVE re_template(_, _)
re_template(repl, groups) ==
    IF repl = <<>> THEN [ok |-> TRUE, items |-> <<>>]
    ELSE IF repl[1] # "\\"
    THEN LET rest == re_template(Tail(repl), groups)
         IN  IF rest.ok
             THEN [ok |-> TRUE,
                   items |-> <<[t |-> "lit", c |-> repl[1], g |-> 0]>>
                                \o rest.items]
             ELSE ReError
    ELSE IF Len(repl) >= 2 /\ repl[2] = "\\"
    THEN LET rest == re_template(SubSeq(repl, 3, Len(repl)), groups)
         IN  IF rest.ok
             THEN [ok |-> TRUE,
                   items |-> <<[t |-> "lit", c |-> "\\", g |-> 0]>>
                                \o rest.items]
             ELSE ReError
    ELSE IF Len(repl) >= 3 /\ repl[2] = "g" /\ repl[3] = "<"
            /\ \E e \in 4..Len(repl) : repl[e] = ">"
    THEN LET close == CHOOSE e \in 4..Len(repl) :
                          repl[e] = ">" /\ \A j \in 4..(e - 1) : repl[j] # ">"
             name == SubSeq(repl, 4, close - 1)
             index == CHOOSE g \in 0..groups + 1 :
                          \/ NatDigits(g) = name
                          \/ (g = groups + 1
                              /\ \A h \in 0..groups : NatDigits(h) # name)
             rest == re_template(SubSeq(repl, close + 1, Len(repl)), groups)
         IN  IF name # <<>> /\ (\A j \in 1..Len(name) : name[j] \in DIGITS)
                /\ index <= groups /\ rest.ok
             THEN [ok |-> TRUE,
                   items |-> <<[t |-> "ref", c |-> "", g |-> index]>>
                                \o rest.items]
             ELSE ReError
    ELSE ReError


NoMatch == [ok |-> FALSE, end |-> 0, caps |-> <<>>]

\* the length of the alphanumeric run of x that starts at pos
alnum_run(x, pos) ==
    Cardinality({e \in pos..Len(x) : \A j \in pos..e : x[j] \in ALNUM})

\* the match of items[k..] against x at pos: a group takes the longest run that
\* lets the rest match (greedy, with backtracking)
RECURSIVE re_match_at(_, _, _, _)
re_match_at(items, k, x, pos) ==
    IF k > Len(items) THEN [ok |-> TRUE, end |-> pos, caps |-> <<>>]
    ELSE IF items[k].t = "lit"
    THEN IF pos <= Len(x) /\ x[pos] = items[k].c
         THEN re_match_at(items, k + 1, x, pos + 1)
         ELSE NoMatch
    ELSE LET good == {n \in 1..alnum_run(x, pos) :
                         re_match_at(items, k + 1, x, pos + n).ok}
         IN  IF good = {} THEN NoMatch
             ELSE LET n == CHOOSE g \in good : \A h \in good : h <= g
                      rest == re_match_at(items, k + 1, x, pos + n)
                  IN  [ok |-> TRUE, end |-> rest.end,
                       caps |-> <<SubSeq(x, pos, pos + n - 1)>> \o rest.caps]

\* the template filled in with the groups of one match
RECURSIVE re_expand(_, _, _)
re_expand(templ, caps, whole) ==
    IF templ = <<>> THEN <<>>
    ELSE (IF templ[1].t = "lit" THEN <<templ[1].c>>
          ELSE IF templ[1].g = 0 THEN whole ELSE caps[templ[1].g])
            \o re_expand(Tail(templ), caps, whole)

\* pattern.sub(repl, x) from pos on: every non-overlapping match, leftmost
\* first, is replaced
RECURSIVE re_sub_from(_, _, _, _)
re_sub_from(items, templ, x, pos) ==
    IF pos > Len(x) THEN <<>>
    ELSE LET m == re_match_at(items, 1, x, pos)
         IN  IF m.ok /\ m.end > pos
             THEN re_expand(templ, m.caps, SubSeq(x, pos, m.end - 1))
                    \o re_sub_from(items, templ, x, m.end)
             ELSE <<x[pos]>> \o re_sub_from(items, templ, x, pos + 1)

\* mutant: a text the pattern matches nowhere comes back empty
re_sub_or_empty(items, templ, x) ==
    IF \A pos \in 1..Len(x) : ~re_match_at(items, 1, x, pos).ok
    THEN <<>>
    ELSE re_sub_from(items, templ, x, 1)

re_sub(items, templ, x) == re_sub_from(items, templ, x, 1)

(***************************************************************************)
(* standardize_by_example                                                  *)
(***************************************************************************)
standardize_by_example(df, column, example_origin, example_target) ==
    LET df_clean == df
        tokens == findall_alnum(example_origin)
    IN  IF tokens = <<>> THEN Raised(df, df_clean, "ValueError: no tokens")
        ELSE
        LET regex_pattern ==
                build_regex_pattern(re_escape(example_origin), tokens, 1)
            replacement_str == build_replacement_str(example_target, tokens, 1)
            skeleton_origin == generate_skeleton(Txt(example_origin))
            sk == skeleton_series(df_clean, column)
            mask == [i \in 1..len(df_clean) |-> sk[i] = skeleton_origin]
            texts == astype_str(Column(df_clean, column))
            pat == re_compile(regex_pattern)
            templ == re_template(replacement_str, n_groups(pat.items))
        IN  \* str.replace compiles the pattern first; the template is parsed
            \* when the first selected value is substituted
            IF ~pat.ok \/ ((\E i \in 1..len(df_clean) : mask[i]) /\ ~templ.ok)
            THEN Raised(df, df_clean, "ValueError: regex")
            ELSE Returned(df, loc_assign(df_clean, mask, column,
                    [i \in 1..len(df_clean) |->
                        Txt(re_sub(pat.items, templ.items, texts[i]))]))


(***************************************************************************)
(* Duplicates                                                              *)
(***************************************************************************)
\* mutant: keep=False, every row that has an equal row is marked
duplicated_keep_false(df) ==
    [i \in 1..len(df) |->
        \E j \in 1..len(df) : j # i /\ df.rows[j] = df.rows[i]]

\* df.duplicated(): a row is marked when an equal row comes before it
safe_duplicate_check(df) ==
    [i \in 1..len(df) |-> \E j \in 1..(i - 1) : df.rows[j] = df.rows[i]]

count_duplicates(df) ==
    Cardinality({i \in 1..len(df) : safe_duplicate_check(df)[i]})

remove_duplicates(df) ==
    LET mask == safe_duplicate_check(df)
        keep == [i \in 1..len(df) |-> ~mask[i]]
    IN  Returned(df, [df EXCEPT !.rows = select(df.rows, keep)])

(***************************************************************************)
(* Numeric and date coercion                                               *)
(***************************************************************************)
RECURSIVE Gcd(_, _)
Gcd(a, b) == IF b = 0 THEN a ELSE Gcd(b, a % b)

Abs(n) == IF n < 0 THEN 0 - n ELSE n

\* the float n / d in lowest terms
Ratio(n, d) == LET g == Gcd(Abs(n), d) IN Flt(n \div g, d \div g)

RECURSIVE DigitsValue(_)
DigitsValue(text) ==
    IF text = <<>> THEN 0
    ELSE 10 * DigitsValue(SubSeq(text, 1, Len(text) - 1))
            + (Ord(text[Len(text)]) - Ord("0"))

IsDigits(text) == text # <<>> /\ \A i \in 1..Len(text) : text[i] \in DIGITS

\* 10 to the power k
RECURSIVE Pow10(_)
Pow10(k) == IF k = 0 THEN 1 ELSE 10 * Pow10(k - 1)

\* the number a text spells: digits, with a point among them or not
IsNumberText(text) ==
    \E p \in 0..Len(text) :
        /\ IsDigits(SubSeq(text, 1, IF p = 0 THEN Len(text) ELSE p - 1))
        /\ p # 0 => (text[p] = "." /\ IsDigits(SubSeq(text, p + 1, Len(text))))

NumberOfText(text) ==
    IF IsDigits(text) THEN IntCell(DigitsValue(text))
    ELSE LET p == CHOOSE q \in 1..Len(text) : text[q] = "."
             frac == SubSeq(text, p + 1, Len(text))
         IN  Ratio(DigitsValue(SubSeq(text, 1, p - 1)) * Pow10(Len(frac))
                        + DigitsValue(frac),
                   Pow10(Len(frac)))

Negated(v) == [v EXCEPT !.n = 0 - v.n]

\* pd.to_numeric(errors='coerce') of one cell: NaN when it is no number; a
\* timestamp is read as its int64 of nanoseconds
to_numeric_cell(v) ==
    CASE v.k = "null" -> IF v = NAT THEN INT64_MIN ELSE NAN
      [] v.k = "int" -> v
      [] v.k = "float" -> v
      [] v.k = "date" /\ v.s = <<>> -> IntCell(v.n)
      [] v.k = "text" ->
            IF IsNumberText(v.s) THEN NumberOfText(v.s)
            ELSE IF Len(v.s) >= 2 /\ v.s[1] = "-" /\ IsNumberText(Tail(v.s))
            THEN Negated(NumberOfText(Tail(v.s)))
            ELSE NAN

\* pd.to_numeric(series, errors='coerce'): int64 when every cell is an int,
\* else float64
to_numeric(series) ==
    LET values == [i \in 1..Len(series) |-> to_numeric_cell(series[i])]
    IN  IF \A i \in 1..Len(series) : values[i].k = "int" THEN values
        ELSE [i \in 1..Len(series) |-> as_float(values[i])]

numeric_dtype(values) ==
    IF \A i \in 1..Len(values) : values[i].k = "int" THEN "int" ELSE "float"

\* text of the form NNNN-NN-NN with a month and a day in range
IsDateText(text) ==
    /\ Len(text) = 10
    /\ text[5] = "-" /\ text[8] = "-"
    /\ \A i \in {1, 2, 3, 4, 6, 7, 9, 10} : text[i] \in DIGITS
    /\ DigitsValue(SubSeq(text, 6, 7)) \in 1..12
    /\ DigitsValue(SubSeq(text, 9, 10)) \in 1..28

\* pd.to_datetime(errors='coerce') of one cell: NaT when it is no date; a
\* number is read as nanoseconds after 1970-01-01
to_datetime(v) ==
    CASE v.k = "null" -> NAT
      [] v.k = "date" -> v
      [] v.k = "text" -> IF IsDateText(v.s) THEN Date(v.s) ELSE NAT
      [] v.k \in {"int", "float"} ->
            IF v.s # <<>> THEN NAT
            ELSE Epoch(IF v.n >= 0 THEN v.n \div v.d
                       ELSE 0 - ((0 - v.n) \div v.d))

LessEq(a, b) == a.n * b.d <= b.n * a.d

\* the numbers of a series that are not missing
present_of(numeric_series) ==
    select(numeric_series,
           [i \in 1..Len(numeric_series) |-> ~pd_isna(numeric_series[i])])

\* a series that holds the int64 of a NaT: its statistics are of that size
has_int64_min(values) == \E i \in 1..Len(values) : values[i].s # <<>>

RECURSIVE SumRatio(_)
SumRatio(values) ==
    IF values = <<>> THEN Flt(0, 1)
    ELSE LET rest == SumRatio(Tail(values))
             v == values[1]
         IN  Ratio(v.n * rest.d + rest.n * v.d, v.d * rest.d)

\* Series.mean() of the non-missing numbers; NaN when there is none
series_mean(numeric_series) ==
    LET present == present_of(numeric_series)
        total == SumRatio(present)
    IN  IF present = <<>> THEN NAN
        ELSE IF has_int64_min(present) THEN as_float(INT64_MIN)
        ELSE Ratio(total.n, total.d * Len(present))

\* Series.median() of the non-missing numbers; NaN when there is none
series_median(numeric_series) ==
    LET present == present_of(numeric_series)
        n == Len(present)
        \* the value at rank r of the sorted values
        ranked(r) == CHOOSE v \in {present[i] : i \in 1..n} :
            /\ Cardinality({i \in 1..n : ~LessEq(v, present[i])}) < r
            /\ Cardinality({i \in 1..n : LessEq(present[i], v)}) >= r
        lo == ranked((n + 1) \div 2)
        hi == ranked((n + 2) \div 2)
    IN  IF n = 0 THEN NAN
        ELSE IF has_int64_min(present) THEN as_float(INT64_MIN)
        ELSE Ratio(lo.n * hi.d + hi.n * lo.d, 2 * lo.d * hi.d)

\* pd.api.types.is_string_dtype: a string column, or an object column that
\* holds nothing but strings
is_string_dtype(series, dtype) ==
    \/ dtype = "string"
    \/ dtype = "object" /\ \A i \in 1..Len(series) : series[i].k = "text"

is_numeric_dtype(dtype) == dtype \in {"int", "float"}

\* df[column] = values (a new column, with its dtype)
set_column(df, column, dtype, values) ==
    [dt |-> [df.dt EXCEPT ![column] = dtype],
     rows |-> [i \in 1..len(df) |-> [df.rows[i] EXCEPT ![column] = values[i]]]]

\* series.fillna(val)
fillna(series, val) ==
    [i \in 1..Len(series) |-> IF pd_isna(series[i]) THEN val ELSE series[i]]

\* the dtype of series.fillna(val): a value that is not of the column's kind,
\* put in place of a missing one, makes the column object
fillna_dtype(series, dtype, val) ==
    IF pd_isna(val) \/ \A i \in 1..Len(series) : ~pd_isna(series[i]) THEN dtype
    ELSE IF dtype \in {"string", "object"} THEN dtype
    ELSE IF is_numeric_dtype(dtype) /\ val.k \in {"int", "float"} THEN dtype
    ELSE "object"

(***************************************************************************)
(* impute_missing_values                                                   *)
(***************************************************************************)
impute_missing_values(df, column, method) ==
    LET df_clean == df
        col == Column(df_clean, column)
        numeric_series == to_numeric(col)
        all_nan == \A i \in 1..Len(col) : pd_isna(numeric_series[i])
        all_null == \A i \in 1..Len(col) : pd_isna(col[i])
        val == IF method = "Promedio (Media)" THEN series_mean(numeric_series)
               ELSE series_median(numeric_series)
        is_string == is_string_dtype(col, df_clean.dt[column])
        base == IF is_string THEN numeric_series ELSE col
        dtype == IF is_string THEN numeric_dtype(numeric_series)
                 ELSE df_clean.dt[column]
        zero == IF df_clean.dt[column] = "float" THEN Flt(0, 1) ELSE IntCell(0)
    IN  IF method = "Eliminar Renglones"
        THEN Returned(df, [df_clean EXCEPT !.rows =
                select(df_clean.rows, [i \in 1..Len(col) |-> ~pd_isna(col[i])])])
        ELSE IF method \in {"Promedio (Media)", "Mediana"}
        THEN IF all_nan /\ ~all_null
             THEN Raised(df, df_clean, "ValueError: statistic")
             ELSE Returned(df, set_column(df_clean, column,
                                          fillna_dtype(base, dtype, val),
                                          fillna(base, val)))
        ELSE IF method = "Valor Cero"
        THEN IF is_numeric_dtype(df_clean.dt[column])
             THEN Returned(df, set_column(df_clean, column,
                        df_clean.dt[column], fillna(col, zero)))
             ELSE Returned(df, set_column(df_clean, column,
                        fillna_dtype(col, df_clean.dt[column], Txt(<<"0">>)),
                        fillna(col, Txt(<<"0">>))))
        ELSE Returned(df, df_clean)

(***************************************************************************)
(* convert_column_type                                                     *)
(***************************************************************************)
\* astype(int) of a number: the fraction of a float is cut off
trunc_int(v) ==
    IF v.k = "int" \/ v.s # <<>> THEN [v EXCEPT !.k = "int"]
    ELSE IF v.n >= 0 THEN IntCell(v.n \div v.d)
    ELSE IntCell(0 - ((0 - v.n) \div v.d))

\* mutant: the coercions made with errors='raise'
convert_column_type_raise(df, column, new_type) ==
    LET col == Column(df, column)
        bad(v) == IF new_type = "Fecha" THEN v.k = "text" /\ ~IsDateText(v.s)
                  ELSE ~pd_isna(v) /\ pd_isna(to_numeric_cell(v))
    IN  IF new_type # "Texto (String)" /\ \E i \in 1..Len(col) : bad(col[i])
        THEN Raised(df, df, "ValueError: convert")
        ELSE Returned(df, set_column(df, column, "object",
                [i \in 1..Len(col) |-> Txt(str(col[i]))]))

convert_column_type(df, column, new_type) ==
    LET df_clean == df
        col == Column(df_clean, column)
        numeric_series == to_numeric(col)
        zero == IF numeric_dtype(numeric_series) = "int" THEN IntCell(0)
                ELSE Flt(0, 1)
        filled == fillna(numeric_series, zero)
        texts == astype_str(col)
    IN  IF new_type = "Texto (String)"
        THEN Returned(df, set_column(df_clean, column, "object",
                [i \in 1..Len(col) |-> Txt(texts[i])]))
        ELSE IF new_type = "Número Entero"
        THEN Returned(df, set_column(df_clean, column, "int",
                [i \in 1..Len(col) |-> trunc_int(filled[i])]))
        ELSE IF new_type = "Número Decimal"
        THEN Returned(df, set_column(df_clean, column,
                numeric_dtype(numeric_series), numeric_series))
        ELSE IF new_type = "Fecha"
        THEN Returned(df, set_column(df_clean, column, "datetime",
                [i \in 1..Len(col) |-> to_datetime(col[i])]))
        ELSE Returned(df, df_clean)


(***************************************************************************)
(* utils/session.py                                                        *)
(***************************************************************************)
KEY_MAIN_DF == "main_data"
KEY_FILE_NAME == "current_filename"
NO_FILE == "Ningún archivo cargado"

\* st.session_state[key] = value
ss_set(ss, key, value) ==
    [k \in (DOMAIN ss) \cup {key} |-> IF k = key THEN value ELSE ss[k]]

init_session_state(ss) ==
    LET s1 == IF KEY_MAIN_DF \notin DOMAIN ss
              THEN ss_set(ss, KEY_MAIN_DF, NONE) ELSE ss
    IN  IF KEY_FILE_NAME \notin DOMAIN s1
        THEN ss_set(s1, KEY_FILE_NAME, NO_FILE) ELSE s1

\* mutant: the file name is stored whether one was given or not
set_main_dataframe_and_name(ss, df, filename) ==
    ss_set(ss_set(ss, KEY_MAIN_DF, df), KEY_FILE_NAME, filename)

\* filename = "" stands for the default None
set_main_dataframe(ss, df, filename) ==
    LET s1 == ss_set(ss, KEY_MAIN_DF, df)
    IN  IF filename # "" THEN ss_set(s1, KEY_FILE_NAME, filename) ELSE s1

get_main_dataframe(ss) ==
    IF KEY_MAIN_DF \in DOMAIN ss THEN ss[KEY_MAIN_DF] ELSE NONE

get_current_filename(ss) ==
    IF KEY_FILE_NAME \in DOMAIN ss THEN ss[KEY_FILE_NAME] ELSE ""

\* mutant: only the file name is reset
clear_session_name_only(ss) ==
    ss_set(ss, KEY_FILE_NAME, NO_FILE)

clear_session(ss) ==
    ss_set(ss_set(ss, KEY_MAIN_DF, NONE), KEY_FILE_NAME, NO_FILE)

is_data_loaded(ss) == ss[KEY_MAIN_DF] # NONE

(***************************************************************************)
(* Inputs.                                                                 *)
(***************************************************************************)
t_A_g == <<"A", "/", "g">>
t_B_h == <<"B", "/", "h">>
t_A_9 == <<"A", "-", "9">>
t_AB == <<"<", "A", "B", ">">>
t_12 == <<"1", "2">>
t_A_u3 == <<"A", "/", ARABIC_THREE>>
t_h_h == <<"h", "/", "h">>
t_A_A == <<"A", "/", "A">>
t_A_1 == <<"A", "/", "1">>
t_x == <<"x">>
t_X == <<"X">>
t_dash == <<"-">>

\* the rows a file can hold
ROWS == {[C |-> Txt(t_A_g), D |-> Txt(t_x)],
         [C |-> Txt(t_B_h), D |-> Txt(t_x)],
         [C |-> Txt(t_A_9), D |-> Txt(t_x)],
         [C |-> Txt(t_12), D |-> Txt(t_x)],
         [C |-> Txt(t_A_u3), D |-> Txt(t_x)],
         [C |-> Txt(t_AB), D |-> NULL],
         [C |-> Txt(t_12), D |-> NULL],
         [C |-> NULL, D |-> Txt(t_x)]}

\* _convert_to_arrow_backend: a loaded table has Arrow string columns
LOADED_DTYPES == [c \in COLUMNS |-> "string"]

TablesOf(rows, n) ==
    {Table(LOADED_DTYPES, r) : r \in UNION {[1..m -> rows] : m \in 0..n}}

TablesUpTo(n) == TablesOf(ROWS, n)

\* the rows of the files loaded in the runs of whole sessions
SESSION_ROWS ==
    {r \in ROWS : r.C \in {Txt(t_A_9), Txt(t_12), NULL} /\ r.D = Txt(t_x)}

CORRUPT == [corrupt |-> TRUE]

SUPPORTED == {"csv", "xlsx", "xls", "parquet", "json", "xml", "geojson",
              "topjson"}

\* the uploads: a name, its extension and what the bytes decode to
UPLOADS ==
    {[name |-> "a.csv", ext |-> "csv", content |-> c] :
        c \in TablesOf(SESSION_ROWS, MaxUploadRows) \cup {CORRUPT}}
    \cup {[name |-> "a.txt", ext |-> "txt", content |-> Table(LOADED_DTYPES, <<>>)]}

\* the files of data/parquet_db, and a name that is not there
LOCAL_FILES ==
    {[name |-> "b.parquet", exists |-> TRUE, content |-> c] :
        c \in TablesOf(SESSION_ROWS, MaxLocalRows) \cup {CORRUPT}}
    \cup {[name |-> "gone.parquet", exists |-> FALSE, content |-> CORRUPT]}

\* the column the inspector is set to
TARGET_COLUMNS == {"C"}

\* the examples and corrections typed into the homologation box
EXAMPLES == {t_A_g, t_B_h, t_h_h, t_A_A, t_A_1, t_A_9, t_AB, NA_TEXT, t_dash}

swap_separator(text) ==
    [i \in 1..Len(text) |->
        IF text[i] = "/" THEN "-" ELSE IF text[i] = "-" THEN "/" ELSE text[i]]

CORRECTIONS(example_origin) ==
    {example_origin, swap_separator(example_origin), t_X}

\* the skeletons a group can be selected by, one of no cell among them
PATTERNS ==
    {generate_skeleton(Txt(e)) : e \in EXAMPLES \ {t_dash}}
        \cup {NULO, <<"A", "A", "A", "A">>}

NEW_VALUES == {t_X, t_B_h, NULL_marker_internal}

METHODS == {"Promedio (Media)", "Mediana", "Valor Cero", "Eliminar Renglones"}

NEW_TYPES == {"Texto (String)", "Número Entero", "Número Decimal", "Fecha"}

(***************************************************************************)
(* io/loader.py                                                            *)
(***************************************************************************)
load_file_to_dataframe(file) ==
    IF file.ext \notin SUPPORTED \/ file.content = CORRUPT
    THEN [raised |-> "ValueError: load", ret |-> NONE]
    ELSE [raised |-> "", ret |-> file.content]

load_parquet_from_path(file) ==
    IF ~file.exists THEN [raised |-> "FileNotFoundError", ret |-> NONE]
    ELSE IF file.content = CORRUPT
    THEN [raised |-> "ValueError: load", ret |-> NONE]
    ELSE [raised |-> "", ret |-> file.content]


(***************************************************************************)
(* The handlers.  Every handler is one run of the script: app.main calls   *)
(* init_session_state, the page is drawn and the pressed button's code     *)
(* runs.  The table the cleaner tab works on is the session's table.       *)
(***************************************************************************)
Call(op, args, df_in, out) ==
    [op |-> op, args |-> args, df_in |-> df_in, out |-> out]

NoOutcome == [raised |-> "", ret |-> NONE, df |-> NONE]

\* a button can be pressed once the page has been drawn
Drawn == DOMAIN session_state # {}

\* the first run of the script, or a run with no button pressed
Rerun ==
    /\ session_state' = init_session_state(session_state)
    /\ UNCHANGED <<edits, last>>

\* tab_upload.process_and_save / load_local_file: the table is stored only
\* when the loader returned
StoreLoaded(op, name, r) ==
    LET ss == init_session_state(session_state)
    IN  /\ session_state' = IF r.raised = ""
                            THEN set_main_dataframe(ss, r.ret, name)
                            ELSE ss
        /\ edits' = IF r.raised = "" THEN 0 ELSE edits
        /\ last' = Call(op, [file_name |-> name], NONE,
                        [raised |-> r.raised, ret |-> r.ret, df |-> NONE])

process_and_save ==
    /\ Drawn
    /\ \E file \in UPLOADS :
        StoreLoaded("process_and_save", file.name, load_file_to_dataframe(file))

load_local_file ==
    /\ Drawn
    /\ \E file \in LOCAL_FILES :
        StoreLoaded("load_local_file", file.name, load_parquet_from_path(file))

\* sidebar_manager.render_status_monitor: the reset button
ResetButton ==
    /\ Drawn
    /\ is_data_loaded(init_session_state(session_state))
    /\ session_state' = clear_session(init_session_state(session_state))
    /\ edits' = 0
    /\ last' = Call("clear_session", [file_name |-> ""], NONE, NoOutcome)

\* the cleaner tab is drawn for a loaded table
Cleaning == Drawn /\ is_data_loaded(init_session_state(session_state))

\* mutant: what the engine call left is stored outside the try block
ApplyEditStoreAlways(op, args, out) ==
    LET ss == init_session_state(session_state)
    IN  /\ session_state' = set_main_dataframe(ss, out.ret, "")
        /\ edits' = IF out.raised = "" THEN edits + 1 ELSE edits
        /\ last' = Call(op, args, get_main_dataframe(ss), out)

\* a button of the cleaner tab: the engine is called on the session's table
\* and the table it returns is stored; when it raises nothing is stored
ApplyEdit(op, args, out) ==
    LET ss == init_session_state(session_state)
        \* the engine was handed the session's own table object
        held == ss_set(ss, KEY_MAIN_DF, out.df)
    IN  /\ session_state' = IF out.raised = ""
                            THEN set_main_dataframe(held, out.ret, "")
                            ELSE held
        /\ edits' = IF out.raised = "" THEN edits + 1 ELSE edits
        /\ last' = Call(op, args, get_main_dataframe(ss), out)

\* a read-only part of the cleaner tab
ShowResult(op, args, result) ==
    LET df == get_main_dataframe(init_session_state(session_state))
    IN  /\ session_state' = init_session_state(session_state)
        /\ UNCHANGED edits
        /\ last' = Call(op, args, df,
                        [raised |-> "", ret |-> result, df |-> df])

render_pattern_analysis ==
    /\ Cleaning
    /\ \E column \in TARGET_COLUMNS :
       \E stats \in analyze_text_patterns(get_main_dataframe(session_state), column) :
            ShowResult("analyze_text_patterns", [column |-> column],
                       [groups |-> stats])

InspectGroup ==
    /\ Cleaning
    /\ \E column \in TARGET_COLUMNS, pattern \in PATTERNS :
            ShowResult("get_unique_values_by_pattern",
                       [column |-> column, pattern |-> pattern],
                       [values |-> get_unique_values_by_pattern(
                            get_main_dataframe(session_state), column, pattern)])

ApplyRelleno ==
    /\ Cleaning /\ edits < MaxEdits
    /\ \E column \in TARGET_COLUMNS, method \in METHODS :
        LET df == get_main_dataframe(session_state)
        IN  \* the button is drawn when the column has nulls
            /\ \E i \in 1..len(df) : pd_isna(df.rows[i][column])
            /\ ApplyEdit("impute_missing_values",
                         [column |-> column, method |-> method],
                         impute_missing_values(df, column, method))

Convertir ==
    /\ Cleaning /\ edits < MaxEdits
    /\ \E column \in TARGET_COLUMNS, new_type \in NEW_TYPES :
        ApplyEdit("convert_column_type",
                  [column |-> column, new_type |-> new_type],
                  convert_column_type(get_main_dataframe(session_state),
                                      column, new_type))

AplicarHomologacion ==
    /\ Cleaning /\ edits < MaxEdits
    /\ \E column \in TARGET_COLUMNS, example_origin \in EXAMPLES :
       \E example_target \in CORRECTIONS(example_origin) :
        ApplyEdit("standardize_by_example",
                  [column |-> column, example_origin |-> example_origin,
                   example_target |-> example_target],
                  standardize_by_example(get_main_dataframe(session_state),
                        column, example_origin, example_target))

AplicarReemplazo ==
    /\ Cleaning /\ edits < MaxEdits
    /\ \E column \in TARGET_COLUMNS, target_pattern \in PATTERNS :
       \E final_val \in NEW_VALUES :
        ApplyEdit("replace_values_by_pattern",
                  [column |-> column, target_pattern |-> target_pattern,
                   new_value |-> final_val],
                  replace_values_by_pattern(get_main_dataframe(session_state),
                        column, target_pattern, final_val))

EliminarTodos ==
    /\ Cleaning /\ edits < MaxEdits
    \* the button is drawn when there are duplicates
    /\ count_duplicates(get_main_dataframe(session_state)) > 0
    /\ ApplyEdit("remove_duplicates", [column |-> ""],
                 remove_duplicates(get_main_dataframe(session_state)))

Init ==
    /\ session_state = [k \in {} |-> NONE]
    /\ edits = 0
    /\ last = Call("start", [file_name |-> ""], NONE, NoOutcome)

Next ==
    \/ Rerun
    \/ process_and_save
    \/ load_local_file
    \/ ResetButton
    \/ render_pattern_analysis
    \/ InspectGroup
    \/ ApplyRelleno
    \/ Convertir
    \/ AplicarHomologacion
    \/ AplicarReemplazo
    \/ EliminarTodos

Spec == Init /\ [][Next]_vars

(***************************************************************************)
(* One call of the engine on any table of up to MaxRows rows: the session  *)
(* as process_and_save leaves it, then one button of the cleaner tab.      *)
(***************************************************************************)
InitEngine ==
    \E df \in TablesUpTo(MaxRows) :
        /\ session_state =
              set_main_dataframe(init_session_state([k \in {} |-> NONE]),
                                 df, "a.csv")
        /\ edits = 0
        /\ last = Call("process_and_save", [file_name |-> "a.csv"], NONE,
                       [raised |-> "", ret |-> df, df |-> NONE])

FirstCall == last.op = "process_and_save"

NextEngine ==
    \/ FirstCall /\ render_pattern_analysis
    \/ FirstCall /\ InspectGroup
    \/ FirstCall /\ ApplyRelleno
    \/ FirstCall /\ Convertir
    \/ FirstCall /\ AplicarHomologacion
    \/ FirstCall /\ AplicarReemplazo
    \/ FirstCall /\ EliminarTodos

SpecEngine == InitEngine /\ [][NextEngine]_vars

(***************************************************************************)
(* _generate_skeleton on its own: any value of up to MaxTextLen            *)
(* characters, then the function applied to it, and applied again.         *)
(***************************************************************************)
SKELETON_CHARS == {"N", "U", "L", "O", "g", "7", ARABIC_THREE, "/"}

TextsUpTo(n) == UNION {[1..k -> SKELETON_CHARS] : k \in 0..n}

SKELETON_INPUTS ==
    {NULL, NAN, NAT, NONE_OBJ, IntCell(12), Flt(5, 2)}
        \cup {Txt(t) : t \in TextsUpTo(MaxTextLen)}

InitSkeleton ==
    \E v \in SKELETON_INPUTS :
        /\ session_state = [k \in {} |-> NONE]
        /\ edits = 0
        /\ last = Call("input", [text |-> v], NONE, NoOutcome)

\* one call of _generate_skeleton(text); a call after the first keeps what the
\* call before it returned, next to its own result
CallGenerateSkeleton ==
    /\ last.op \in {"input", "_generate_skeleton"}
    /\ last' = Call("_generate_skeleton", last.args, NONE,
                    [raised |-> "",
                     ret |-> [skeleton |-> generate_skeleton(last.args.text),
                              again |-> last.op = "_generate_skeleton",
                              before |-> IF last.op = "_generate_skeleton"
                                         THEN last.out.ret.skeleton
                                         ELSE <<>>],
                     df |-> NONE])
    /\ UNCHANGED <<session_state, edits>>

NextSkeleton == CallGenerateSkeleton

SpecSkeleton == InitSkeleton /\ [][NextSkeleton]_vars


(***************************************************************************)
(* The claims.  Engine claims are checked under SpecEngine, on the call    *)
(* recorded in last; session claims under Spec.                            *)
(***************************************************************************)
IsCall(op) == last.op = op /\ last.df_in # NONE

\* the cell of row i of the target column before and after the call
CellIn(i) == last.df_in.rows[i][last.args.column]
CellOut(i) == last.out.ret.rows[i][last.args.column]

\* every column but the target one is as it was, row by row
OtherColumnsKept ==
    /\ len(last.out.ret) = len(last.df_in)
    /\ last.out.ret.dt = last.df_in.dt
    /\ \A i \in 1..len(last.df_in) : \A c \in COLUMNS \ {last.args.column} :
            last.out.ret.rows[i][c] = last.df_in.rows[i][c]

\* the skeleton as specified: one pass, digit -> N, letter -> A
SkeletonAsSpecified(v) ==
    IF pd_isna(v) THEN NULO
    ELSE [i \in 1..Len(str(v)) |->
            IF str(v)[i] \in RE_DIGIT THEN "N"
            ELSE IF str(v)[i] \in LETTERS THEN "A" ELSE str(v)[i]]

\* C1: the skeleton of a non-null value has "N" for each digit, "A" for each
\* letter and every other character as it is: each group that
\* analyze_text_patterns reports carries that skeleton of its example.
C1_SkeletonMarkers ==
    IsCall("analyze_text_patterns") =>
        \A i \in 1..Len(last.out.ret.groups) :
            last.out.ret.groups[i].Patron =
                SkeletonAsSpecified(Txt(last.out.ret.groups[i].Ejemplo))

\* after has the tokens of before, in order, at the same places: only the
\* separators differ
SeparatorsOnly(before, after) ==
    /\ findall_alnum(before) # <<>>
    /\ findall_alnum(after) = findall_alnum(before)
    /\ Len(after) = Len(before)
    /\ \A i \in 1..Len(before) : (before[i] \in ALNUM) <=> (after[i] \in ALNUM)

\* after with its k-th token replaced by toks[k]
RECURSIVE JoinWithSeparatorsOf(_, _, _)
JoinWithSeparatorsOf(after, toks, k) ==
    IF after = <<>> THEN <<>>
    ELSE IF after[1] \notin ALNUM
    THEN <<after[1]>> \o JoinWithSeparatorsOf(Tail(after), toks, k)
    ELSE LET stop == CHOOSE e \in 1..Len(after) :
                        /\ \A j \in 1..e : after[j] \in ALNUM
                        /\ (e = Len(after) \/ after[e + 1] \notin ALNUM)
         IN  toks[k] \o JoinWithSeparatorsOf(
                            SubSeq(after, stop + 1, Len(after)), toks, k + 1)

\* C2: when after only changes the separators of before,
\* standardize_by_example returns, and every text row with before's skeleton
\* (as specified and as _generate_skeleton computes it) becomes its own tokens
\* joined by after's separators.
C2_RewriteKeepsOwnTokens ==
    (IsCall("standardize_by_example")
        /\ SeparatorsOnly(last.args.example_origin, last.args.example_target))
    => \A i \in 1..len(last.df_in) :
          (CellIn(i).k = "text"
              /\ SkeletonAsSpecified(CellIn(i))
                    = SkeletonAsSpecified(Txt(last.args.example_origin))
              /\ generate_skeleton(CellIn(i))
                    = generate_skeleton(Txt(last.args.example_origin)))
          => /\ last.out.raised = ""
             /\ CellOut(i) = Txt(JoinWithSeparatorsOf(
                                    last.args.example_target,
                                    findall_alnum(CellIn(i).s), 1))

\* C3: replace_values_by_pattern overwrites exactly the cells whose skeleton
\* is the target (with null for the null marker) and keeps every other cell,
\* every other column and the row count.
C3_ReplaceExactlyGroup ==
    IsCall("replace_values_by_pattern") =>
        /\ last.out.raised = ""
        /\ OtherColumnsKept
        /\ \A i \in 1..len(last.df_in) :
              CellOut(i) =
                IF generate_skeleton(CellIn(i)) = last.args.target_pattern
                THEN (IF last.args.new_value = NULL_marker_internal THEN NULL
                      ELSE Txt(last.args.new_value))
                ELSE CellIn(i)

\* the rows of the input whose target cell is null
NullRows == {i \in 1..len(last.df_in) : pd_isna(CellIn(i))}

\* C4: every pattern operation puts a null cell under "NULO": the grouping
\* counts the null cells in the "NULO" group, the inspector returns a null
\* only for "NULO", and a replacement or a rewrite aimed at another skeleton
\* leaves the null cells null.
C4_NullIsNULO ==
    /\ IsCall("analyze_text_patterns") =>
          (NullRows # {} =>
              \E i \in 1..Len(last.out.ret.groups) :
                  /\ last.out.ret.groups[i].Patron = NULO
                  /\ last.out.ret.groups[i].Cantidad = Cardinality(NullRows))
    /\ (IsCall("get_unique_values_by_pattern") /\ last.args.pattern # NULO) =>
          \A i \in 1..Len(last.out.ret.values) :
              ~pd_isna(last.out.ret.values[i])
    /\ (IsCall("replace_values_by_pattern") /\ last.args.target_pattern # NULO
            /\ last.out.raised = "") =>
          \A i \in NullRows : pd_isna(CellOut(i))
    /\ (IsCall("standardize_by_example") /\ last.out.raised = "") =>
          \A i \in NullRows : pd_isna(CellOut(i))

RECURSIVE SumCantidad(_)
SumCantidad(groups) ==
    IF groups = <<>> THEN 0
    ELSE groups[1].Cantidad + SumCantidad(Tail(groups))

\* C5: the member counts of the groups analyze_text_patterns returns add up to
\* the row count, and no two groups have the same skeleton.
C5_GroupsPartitionRows ==
    IsCall("analyze_text_patterns") =>
        LET groups == last.out.ret.groups
        IN  /\ SumCantidad(groups) = len(last.df_in)
            /\ \A i, j \in 1..Len(groups) :
                  i # j => groups[i].Patron # groups[j].Patron

\* C5 witness: a grouping of three rows, one of them null, into two groups
C5_Witness ==
    /\ IsCall("analyze_text_patterns")
    /\ len(last.df_in) = 3
    /\ NullRows # {}
    /\ Len(last.out.ret.groups) = 2

\* C6: standardize_by_example keeps the rows and their order, every other
\* column, and every cell of the column whose skeleton is not before's.
C6_RewriteFrame ==
    (IsCall("standardize_by_example") /\ last.out.raised = "") =>
        /\ OtherColumnsKept
        /\ \A i \in 1..len(last.df_in) :
              generate_skeleton(CellIn(i))
                    # generate_skeleton(Txt(last.args.example_origin))
              => CellOut(i) = CellIn(i)

EDIT_OPS == {"replace_values_by_pattern", "standardize_by_example",
             "impute_missing_values", "convert_column_type",
             "remove_duplicates"}

C8_FailureKeepsSession ==
    [][/\ last'.out.raised # "" =>
            /\ get_main_dataframe(session_state')
                    = get_main_dataframe(session_state)
            /\ get_current_filename(session_state')
                    = get_current_filename(session_state)
       /\ get_main_dataframe(session_state') # get_main_dataframe(session_state)
            => /\ last'.out.raised = ""
               /\ \/ get_main_dataframe(session_state') = last'.out.ret
                  \/ (last'.op = "clear_session"
                        /\ get_main_dataframe(session_state') = NONE)]_vars

\* C8 witness: an edit raised while a table was held
C8_Witness ==
    /\ last.op \in {"standardize_by_example", "impute_missing_values"}
    /\ last.out.raised # ""
    /\ get_main_dataframe(session_state) = last.df_in
    /\ len(last.df_in) > 0

\* the groups come with their member counts non-increasing
CountDescending(groups) ==
    \A i, j \in 1..Len(groups) :
        i < j => groups[i].Cantidad >= groups[j].Cantidad

\* the first row of the input whose text has skeleton p
FirstRowOf(p) ==
    LET sk == skeleton_series(last.df_in, last.args.column)
    IN  CHOOSE i \in 1..Len(sk) : sk[i] = p /\ \A j \in 1..(i - 1) : sk[j] # p

\* C9 (as amended): analyze_text_patterns returns its groups ordered by
\* member count descending.
C9_CountDescending ==
    IsCall("analyze_text_patterns") => CountDescending(last.out.ret.groups)

\* C9 witness: a grouping with a larger group before a smaller one
C9_Witness ==
    /\ IsCall("analyze_text_patterns")
    /\ Len(last.out.ret.groups) >= 2
    /\ last.out.ret.groups[1].Cantidad > last.out.ret.groups[2].Cantidad

\* C9 (as claimed): the groups are ordered by member count descending, and
\* groups with equal counts come in the order their skeletons are first met in
\* the column.
C9_TiesInEncounterOrder ==
    IsCall("analyze_text_patterns") =>
        LET groups == last.out.ret.groups
        IN  /\ CountDescending(groups)
            /\ \A i, j \in 1..Len(groups) :
                  (i < j /\ groups[i].Cantidad = groups[j].Cantidad)
                  => FirstRowOf(groups[i].Patron) < FirstRowOf(groups[j].Patron)

\* C10: get_unique_values_by_pattern returns only values whose skeleton is the
\* pattern, every distinct value of the column with that skeleton, and each
\* of them once.
C10_MembersOfPattern ==
    IsCall("get_unique_values_by_pattern") =>
        LET vals == last.out.ret.values
        IN  /\ \A i \in 1..Len(vals) :
                  generate_skeleton(vals[i]) = last.args.pattern
            /\ \A i \in 1..len(last.df_in) :
                  generate_skeleton(CellIn(i)) = last.args.pattern
                  => \E j \in 1..Len(vals) : vals[j] = CellIn(i)
            /\ \A i, j \in 1..Len(vals) : i # j => vals[i] # vals[j]

\* a cell that holds a value which is no number
NonNumeric(v) == ~pd_isna(v) /\ pd_isna(to_numeric_cell(v))

\* C11: imputation by mean or median raises whenever the column holds a
\* non-numeric value, also next to numeric ones; imputation by zero and row
\* deletion never raise.
C11_ImputeRaisesOnText ==
    IsCall("impute_missing_values") =>
        /\ (last.args.method \in {"Promedio (Media)", "Mediana"}
                /\ \E i \in 1..len(last.df_in) : NonNumeric(CellIn(i)))
            => last.out.raised # ""
        /\ last.args.method \in {"Valor Cero", "Eliminar Renglones"}
            => last.out.raised = ""

NUMERIC_TYPES == {"Número Entero", "Número Decimal"}

\* a cell that holds a value which does not parse as the target type
Unparseable(v, new_type) ==
    IF new_type \in NUMERIC_TYPES THEN NonNumeric(v)
    ELSE v.k = "text" /\ ~IsDateText(v.s)

ReplacedAgain ==
    replace_values_by_pattern(last.out.ret, last.args.column,
                              last.args.target_pattern, last.args.new_value)

\* C13: replacing a group by a literal a second time gives the table the
\* first replacement gave, whether the literal has the target skeleton or not.
C13_ReplaceIdempotent ==
    (IsCall("replace_values_by_pattern")
        /\ last.args.new_value # NULL_marker_internal)
    => /\ last.out.raised = ""
       /\ ReplacedAgain.raised = ""
       /\ ReplacedAgain.ret = last.out.ret

\* C13 witness: a replacement that changed two cells, by a literal that has
\* the target skeleton itself
C13_Witness ==
    /\ IsCall("replace_values_by_pattern")
    /\ last.args.new_value # NULL_marker_internal
    /\ generate_skeleton(Txt(last.args.new_value)) = last.args.target_pattern
    /\ Cardinality({i \in 1..len(last.df_in) : CellOut(i) # CellIn(i)}) >= 2
    /\ ReplacedAgain.ret = last.out.ret


\* C14: a replacement whose target skeleton no cell of the column has returns
\* the input table unchanged and does not fail, for a literal and for the
\* null marker alike.
C14_AbsentSkeletonNoChange ==
    (IsCall("replace_values_by_pattern")
        /\ \A i \in 1..len(last.df_in) :
              generate_skeleton(CellIn(i)) # last.args.target_pattern)
    => /\ last.out.raised = ""
       /\ last.out.ret = last.df_in


\* the example holds no letter and no digit of the class [a-zA-Z0-9]
NoAlnumRun(text) == \A j \in 1..Len(text) : text[j] \notin ALNUM

\* C15: the rewrite by example fails with the no-token error exactly when the
\* before example holds no alphanumeric run; on that failure nothing is
\* returned and the table passed in is as it was.
C15_NoTokenError ==
    IsCall("standardize_by_example") =>
        /\ (last.out.raised = "ValueError: no tokens")
               <=> NoAlnumRun(last.args.example_origin)
        /\ last.out.raised = "ValueError: no tokens"
               => /\ last.out.ret = NONE
                  /\ last.out.df = last.df_in

\* C15 witness: a call on a non-empty table with an example made of
\* separators only has failed
C15_Witness ==
    /\ IsCall("standardize_by_example")
    /\ NoAlnumRun(last.args.example_origin)
    /\ len(last.df_in) > 0
    /\ last.out.raised = "ValueError: no tokens"
    /\ last.out.ret = NONE


\* the places in the token list of a text that repeat an earlier token
LaterOccurrences(text) ==
    LET tokens == findall_alnum(text)
    IN  {k \in 1..Len(tokens) : \E j \in 1..(k - 1) : tokens[j] = tokens[k]}

\* the row is text of the class [a-zA-Z0-9] and separators, with the skeleton
\* of the before example
Candidate(i) ==
    /\ CellIn(i).k = "text"
    /\ \A j \in 1..Len(CellIn(i).s) : CellIn(i).s[j] \notin (RE_DIGIT \ DIGITS)
    /\ generate_skeleton(CellIn(i))
          = generate_skeleton(Txt(last.args.example_origin))

\* the template the call builds from the after example
TemplateOfCall ==
    LET tokens == findall_alnum(last.args.example_origin)
    IN  re_template(build_replacement_str(last.args.example_target, tokens, 1),
                    Len(tokens))

\* C16 as stated: with a token repeated in the before example, a row is
\* rewritten only if it holds the literal token text at each later place.
C16_LaterOccurrenceLiteral ==
    (IsCall("standardize_by_example")
        /\ LaterOccurrences(last.args.example_origin) # {}
        /\ last.out.raised = "")
    => \A i \in 1..len(last.df_in) :
          (CellIn(i).k = "text" /\ CellOut(i) # CellIn(i))
          => \A k \in LaterOccurrences(last.args.example_origin) :
                LET own == findall_alnum(CellIn(i).s)
                IN  /\ k <= Len(own)
                    /\ own[k] = findall_alnum(last.args.example_origin)[k]

\* C16 amended: with a token repeated in the before example, a call that
\* returns has made every occurrence a capture point: each candidate row is
\* matched whole with its own tokens as the groups, whatever text it holds
\* at the later places.
C16_EveryOccurrenceCaptures ==
    (IsCall("standardize_by_example")
        /\ LaterOccurrences(last.args.example_origin) # {}
        /\ last.out.raised = "")
    => \A i \in 1..len(last.df_in) : Candidate(i) =>
          CellOut(i) = Txt(re_expand(TemplateOfCall.items,
                                     findall_alnum(CellIn(i).s), CellIn(i).s))

\* C16 witness: a row that does not hold the repeated token at the later place
\* has been rewritten
C16_Witness ==
    /\ IsCall("standardize_by_example")
    /\ last.out.raised = ""
    /\ \E i \in 1..len(last.df_in) :
          /\ Candidate(i)
          /\ CellOut(i) # CellIn(i)
          /\ \E k \in LaterOccurrences(last.args.example_origin) :
                findall_alnum(CellIn(i).s)[k]
                    # findall_alnum(last.args.example_origin)[k]


\* the pattern the call builds from the before example
PatternOfCall ==
    LET tokens == findall_alnum(last.args.example_origin)
    IN  re_compile(build_regex_pattern(re_escape(last.args.example_origin),
                                       tokens, 1))

\* row i has the skeleton of the before example, and the pattern of the call
\* matches its text nowhere
SkeletonOnly(i) ==
    /\ ~pd_isna(CellIn(i))
    /\ generate_skeleton(CellIn(i))
          = generate_skeleton(Txt(last.args.example_origin))
    /\ PatternOfCall.ok
    /\ \A pos \in 1..Len(str(CellIn(i))) :
          ~re_match_at(PatternOfCall.items, 1, str(CellIn(i)), pos).ok

\* the table of the call with the before example written in each such row
WithExampleInstead ==
    [last.df_in EXCEPT !.rows =
        [i \in 1..len(last.df_in) |->
            IF SkeletonOnly(i)
            THEN [last.df_in.rows[i] EXCEPT
                    ![last.args.column] = Txt(last.args.example_origin)]
            ELSE last.df_in.rows[i]]]

C18_ExampleAndFlag ==
    IsCall("analyze_text_patterns") =>
        LET groups == last.out.ret.groups
            texts == astype_str(Column(last.df_in, last.args.column))
        IN  \A g \in 1..Len(groups) :
                LET members == {i \in 1..len(last.df_in) :
                        generate_skeleton(CellIn(i)) = groups[g].Patron}
                IN  /\ members # {}
                    /\ \E first \in members :
                          /\ \A j \in members : first <= j
                          /\ groups[g].Ejemplo = texts[first]
                    /\ groups[g].ValorUnico
                          <=> Cardinality({texts[i] : i \in members}) = 1


\* C19: _generate_skeleton returns a text for every value, the same text when
\* it is called again on the same value, "NULO" for a null value and never
\* "NULO" for a value that is not null.
C19_SkeletonTotal ==
    last.op = "_generate_skeleton" =>
        LET ret == last.out.ret
        IN  /\ last.out.raised = ""
            /\ \A j \in 1..Len(ret.skeleton) :
                  ret.skeleton[j] \in SKELETON_CHARS \cup {"A", "N", "."}
            /\ pd_isna(last.args.text) => ret.skeleton = NULO
            /\ ~pd_isna(last.args.text) => ret.skeleton # NULO
            /\ ret.again => ret.skeleton = ret.before

\* C19 witness: the text "NULO" has been given its skeleton twice, "AAAA"
C19_Witness ==
    /\ last.op = "_generate_skeleton"
    /\ last.args.text = Txt(NULO)
    /\ last.out.ret.again
    /\ last.out.ret.skeleton = <<"A", "A", "A", "A">>


LOAD_OPS == {"process_and_save", "load_local_file"}

\* the session holds a table
Held(ss) == get_main_dataframe(ss) # NONE

\* what the last handler leaves: a table after a load or an edit that
\* returned, none after a reset; is_data_loaded tells which, once the page
\* has been drawn
LifecycleNow ==
    /\ (last.op \in LOAD_OPS \cup EDIT_OPS /\ last.out.raised = "")
          => Held(session_state)
    /\ last.op = "clear_session" => ~Held(session_state)
    /\ Drawn => (is_data_loaded(session_state) <=> Held(session_state))

\* a session without a table gets one from a load that returned, only
FirstTableFromLoad ==
    (~Held(session_state) /\ Held(session_state'))
        => /\ last'.op \in LOAD_OPS
           /\ last'.out.raised = ""
           /\ session_state'[KEY_MAIN_DF] = last'.out.ret

\* C20: the session starts without a table and stays so until a load returns;
\* it holds a table after every load or edit that returned and none right
\* after clear_session; is_data_loaded is true exactly when a table is held.
C20_SessionLifecycle ==
    /\ ~Held(session_state)
    /\ []LifecycleNow
    /\ [][FirstTableFromLoad]_vars

\* C20 witness: the reset button has emptied a session that held a table
C20_Witness ==
    /\ last.op = "clear_session"
    /\ Drawn
    /\ ~Held(session_state)
    /\ ~is_data_loaded(session_state)
    /\ get_current_filename(session_state) = NO_FILE


\* the place in the input of the first row equal to row
FirstPlace(row) ==
    CHOOSE i \in 1..len(last.df_in) :
        /\ last.df_in.rows[i] = row
        /\ \A j \in 1..(i - 1) : last.df_in.rows[j] # row

C22_SameExampleIsIdentity ==
    (IsCall("standardize_by_example")
        /\ last.args.example_target = last.args.example_origin
        /\ ~NoAlnumRun(last.args.example_origin))
    => /\ last.out.raised = ""
       /\ last.out.ret = last.df_in


\* the same cell, or the same number read from a text and held as a number
SameValue(a, b) ==
    \/ a = b
    \/ /\ ~pd_isna(to_numeric_cell(a))
       /\ ~pd_isna(to_numeric_cell(b))
       /\ to_numeric_cell(a).n = to_numeric_cell(b).n
       /\ to_numeric_cell(a).d = to_numeric_cell(b).d

\* C23: imputation by mean, median or zero keeps the row count, the other
\* columns and every cell of the column that was not null; row deletion
\* returns exactly the rows whose cell in the column was not null, in order.
C23_ImputeFrame ==
    (IsCall("impute_missing_values") /\ last.out.raised = "") =>
        IF last.args.method = "Eliminar Renglones"
        THEN last.out.ret.rows
                = select(last.df_in.rows,
                         [i \in 1..len(last.df_in) |-> ~pd_isna(CellIn(i))])
        ELSE /\ len(last.out.ret) = len(last.df_in)
             /\ \A c \in COLUMNS \ {last.args.column} :
                   /\ last.out.ret.dt[c] = last.df_in.dt[c]
                   /\ \A i \in 1..len(last.df_in) :
                         last.out.ret.rows[i][c] = last.df_in.rows[i][c]
             /\ \A i \in 1..len(last.df_in) :
                   ~pd_isna(CellIn(i)) => SameValue(CellIn(i), CellOut(i))


\* the file name goes with the table: the placeholder when no table is held,
\* the name of a loaded file when one is
NameNow ==
    Drawn =>
        IF Held(session_state)
        THEN get_current_filename(session_state)
                \in {f.name : f \in UPLOADS \cup LOCAL_FILES}
        ELSE get_current_filename(session_state) = NO_FILE

\* one handler: a load that returned sets the name of its file, a reset sets
\* the placeholder, an edit or a failed load leaves the name, and a rerun
\* leaves the table and the name
NameStep ==
    IF ~Drawn
    THEN get_current_filename(session_state') = NO_FILE
            /\ ~Held(session_state')
    ELSE IF last' = last
    THEN session_state' = session_state
    ELSE IF last'.op \in LOAD_OPS /\ last'.out.raised = ""
    THEN get_current_filename(session_state') = last'.args.file_name
    ELSE IF last'.op = "clear_session"
    THEN get_current_filename(session_state') = NO_FILE
    ELSE get_current_filename(session_state')
            = get_current_filename(session_state)

\* C24: the file name of the session is the name of the last load that
\* returned since the last reset, or "Ningún archivo cargado" when no table is
\* held; an edit changes the table and not the name, and a rerun changes
\* neither.
C24_FileNameFollowsLoads ==
    /\ []NameNow
    /\ [][NameStep]_vars

\* C24 witness: an edit has changed the table loaded from b.parquet and the
\* session still carries that name
C24_Witness ==
    /\ last.op \in EDIT_OPS
    /\ last.out.raised = ""
    /\ last.out.ret # last.df_in
    /\ session_state[KEY_MAIN_DF] = last.out.ret
    /\ get_current_filename(session_state) = "b.parquet"

====
